---- MODULE Spec2Model ----
(***************************************************************************)
(* Password_Generator/passGenerator.py: generate_password and its helper   *)
(* build_character_pool, modelled statement by statement.  Every call of   *)
(* generate_password has its own locals (length, the include_* flags,      *)
(* pool, password_chars); the locals of call c are the c-th components of  *)
(* the variables below.                                                     *)
(***************************************************************************)
EXTENDS Integers, Sequences, FiniteSets, TLC

\* ------------------------------------------------------------------ bounds
\* Largest length a caller passes (lengths below 1 are passed too).
MaxLength == 4
\* secrets.choice is explored on the first MaxDraw characters of each category.
MaxDraw == 1
\* Largest length passed by the calls of two concurrent threads.
MaxConcLength == 2

\* Largest length passed by the calls whose termination is checked.
MaxFairLength == 3
\* Longest content of the GUI's password field explored for on_copy.
MaxField == 2
\* Most on_copy calls waiting in root.update() at a time.
MaxCopyDepth == 1

\* How many phone numbers and how many names the contact book is called with.
MaxPhones == 3
MaxNames == 2

\* Most rounds of the game played or under way between two resets.
MaxRounds == 3

\* Most tasks in the to-do list, and most items in an imported file.
MaxTasks == 2
MaxImport == 2

\* ------------------------------------------------------- category registry
\* string.ascii_lowercase
ascii_lowercase ==
    << "a", "b", "c", "d", "e", "f", "g", "h", "i", "j", "k", "l", "m",
       "n", "o", "p", "q", "r", "s", "t", "u", "v", "w", "x", "y", "z" >>

\* string.ascii_uppercase
ascii_uppercase ==
    << "A", "B", "C", "D", "E", "F", "G", "H", "I", "J", "K", "L", "M",
       "N", "O", "P", "Q", "R", "S", "T", "U", "V", "W", "X", "Y", "Z" >>

\* string.digits
digits ==
    << "0", "1", "2", "3", "4", "5", "6", "7", "8", "9" >>

\* The symbol literal with a space between "?" and "/".
symbols_with_space ==
    << "!", "@", "#", "$", "%", "^", "&", "*", "(", ")", "-", "_", "=",
       "+", "[", "]", "{", "}", ";", ":", ",", ".", "?", " ", "/", "\\", "|" >>

\* the literal "!@#$%^&*()-_=+[]{};:,.?/\\|"
symbols ==
    << "!", "@", "#", "$", "%", "^", "&", "*", "(", ")", "-", "_", "=",
       "+", "[", "]", "{", "}", ";", ":", ",", ".", "?", "/", "\\", "|" >>

\* The four categories in the order the code tests their flags.
Categories == << "lower", "upper", "digits", "symbols" >>

CategoryNames == { Categories[i] : i \in DOMAIN Categories }

\* The literal each category's guaranteed character is drawn from.
CategoryChars ==
    [ lower |-> ascii_lowercase, upper |-> ascii_uppercase,
      digits |-> digits, symbols |-> symbols ]

\* ------------------------------------------------------------ pure helpers
Range(s) == { s[i] : i \in DOMAIN s }

Min(a, b) == IF a < b THEN a ELSE b

Max(a, b) == IF a > b THEN a ELSE b

\* The flags of one call: include_lower, include_upper, include_digits,
\* include_symbols.
Selections == [ CategoryNames -> BOOLEAN ]

NoSelection == [ k \in CategoryNames |-> FALSE ]

Enabled(sel) == { k \in CategoryNames : sel[k] }

\* build_character_pool with a fallback to lowercase (the CLI's policy moved
\* into the pool builder).
build_character_pool_default_lower(sel) ==
    LET part(k) == IF sel[k] THEN CategoryChars[k] ELSE << >>
        joined == part("lower") \o part("upper") \o part("digits") \o part("symbols")
    IN  IF joined = << >> THEN ascii_lowercase ELSE joined

\* build_character_pool that appends the digits whatever include_digits is.
build_character_pool_always_digits(sel) ==
    LET part(k) == IF sel[k] THEN CategoryChars[k] ELSE << >>
    IN  part("lower") \o part("upper") \o digits \o part("symbols")

\* build_character_pool with the uppercase test before the lowercase test.
build_character_pool_upper_first(sel) ==
    LET part(k) == IF sel[k] THEN CategoryChars[k] ELSE << >>
    IN  part("upper") \o part("lower") \o part("digits") \o part("symbols")

\* build_character_pool: the enabled categories' literals, joined in the
\* order lower, upper, digits, symbols.
build_character_pool(sel) ==
    LET part(k) == IF sel[k] THEN CategoryChars[k] ELSE << >>
    IN  part("lower") \o part("upper") \o part("digits") \o part("symbols")

\* The characters the sampler is explored on.
SampledChars ==
    UNION { { CategoryChars[k][i] : i \in 1..Min(MaxDraw, Len(CategoryChars[k])) }
            : k \in CategoryNames }

\* secrets.choice(seq): any element of seq (seq[randbelow(len(seq))]).
choice(seq) == { seq[i] : i \in { j \in DOMAIN seq : seq[j] \in SampledChars } }

\* "return "".join(password_chars)": the slice left out.
SliceTo_none(seq, n) == seq

\* Python's seq[:n].
SliceTo(seq, n) ==
    IF n >= 0 THEN SubSeq(seq, 1, Min(n, Len(seq)))
              ELSE SubSeq(seq, 1, Max(Len(seq) + n, 0))

\* "if length <= 0" written as "if length < 0".
LengthRejected_strict(len) == len < 0

\* The test of line 62.
LengthRejected(len) == len <= 0

\* "if not pool" left out.
PoolRejected_never(p) == FALSE

\* The test of line 66, "if not pool".
PoolRejected(p) == p = << >>

\* "while len(password_chars) < length" stopping one draw early.
FillCondition_short(chars, len) == Len(chars) < len - 1

\* "while len(password_chars) <= length": one draw too many.
FillCondition_extra(chars, len) == Len(chars) <= len

\* The loop condition of line 82.
FillCondition(chars, len) == Len(chars) < len

\* The guaranteed character drawn from the combined pool instead of the
\* category's own literal.
GuaranteePool_combined(k, combined) == combined

\* The digits branch copied from the uppercase branch, its literal unchanged.
GuaranteePool_copy_paste(k, combined) ==
    IF k = "digits" THEN ascii_uppercase ELSE CategoryChars[k]

\* The sequence the guaranteed character of category k is drawn from.
GuaranteePool(k, combined) == CategoryChars[k]

\* ------------------------------------------------------------------ shuffle
\* random.Random.shuffle, which secrets.SystemRandom inherits:
\*     for i in reversed(range(1, len(x))):
\*         j = randbelow(i + 1)
\*         x[i], x[j] = x[j], x[i]
\* A run of the loop on n elements makes n-1 draws; draws[m] is the j drawn
\* in the m-th iteration, the one with i = n - m (0-based indices).

\* j = randbelow(len(x)) in every iteration (the naive shuffle).
ShuffleIndexRange_naive(n, i) == 0..(n - 1)

\* j = randbelow(i) (Sattolo's variant: only cyclic orderings).
ShuffleIndexRange_sattolo(n, i) == 0..(i - 1)

\* j = i in every iteration: the list is left as it was.
ShuffleIndexRange_fixed(n, i) == { i }

\* The values of j = randbelow(i + 1).
ShuffleIndexRange(n, i) == 0..i

ShuffleDraws(n) ==
    IF n <= 1 THEN { << >> }
    ELSE { d \in [ 1..(n - 1) -> 0..(n - 1) ] :
             \A m \in 1..(n - 1) : d[m] \in ShuffleIndexRange(n, n - m) }

\* "x[i] = x[j]": the second half of the exchange left out.
Swap_overwrite(x, i, j) ==
    [ p \in DOMAIN x |-> IF p = i + 1 THEN x[j + 1] ELSE x[p] ]

\* x[i], x[j] = x[j], x[i] (0-based i, j).
Swap(x, i, j) ==
    [ p \in DOMAIN x |-> IF p = i + 1 THEN x[j + 1]
                         ELSE IF p = j + 1 THEN x[i + 1] ELSE x[p] ]

RECURSIVE ShuffleFrom(_, _, _)
ShuffleFrom(x, draws, m) ==
    IF m > Len(draws) THEN x
    ELSE ShuffleFrom(Swap(x, Len(x) - m, draws[m]), draws, m + 1)

\* The list after shuffle made the draws `draws`.
shuffle(x, draws) == ShuffleFrom(x, draws, 1)

\* ------------------------------------------------------------------- state
Calls == { "A", "B" }

\* The exceptions generate_password raises.
LengthError == [ type |-> "ValueError", message |-> "Password length must be positive." ]

NoCategoryError ==
    [ type |-> "ValueError", message |-> "At least one character category must be selected." ]

\* No exception.
NoError == [ type |-> "None", message |-> "" ]

\* Nothing returned.
NoResult == [ returned |-> FALSE, value |-> << >> ]

\* The string "".join(chars), kept as the sequence of its characters.
Returned(chars) == [ returned |-> TRUE, value |-> chars ]

\* The random source of each kind of draw.
GuaranteeSource == "secrets.choice"

FillSource_random == "random.choice"

FillSource == "secrets.choice"

ShuffleSource == "secrets.SystemRandom"

VARIABLES
    pc,              \* where call c stands in generate_password
    length,          \* its argument length
    include,         \* its arguments include_lower .. include_symbols
    pool,            \* its local pool
    password_chars,  \* its local password_chars
    result,          \* the string it returned, or NoResult
    error,           \* the exception it raised, or NoError
    randomness,      \* the <<step, source>> of every random draw it made
    caller,          \* what main() started: "run_cli", "run_gui", or "none"
                     \* when generate_password is called directly
    caller_pc,       \* where run_cli, or the GUI's event loop, stands
    stdout,          \* the lines run_cli has printed (their order dropped)
    messagebox,      \* the dialog the last handler showed, or NoBox
    password_var,    \* the GUI's password_var
    clipboard,       \* the text on the clipboard
    on_copy_frames,  \* the pwd of every on_copy waiting in root.update()
    contacts,        \* ContactBook.contacts
    contacts_file,   \* the list last written to contacts.json
    returned,        \* what the last ContactBook call returned
    user_score,      \* the fields of ModernRockPaperScissorsGUI
    computer_score,
    game_history,
    round_count,
    buttons,         \* the state of the three weapon buttons
    timers,          \* the play_round callbacks root.after has scheduled
    make_choice_frames, \* the user_choice of every make_choice waiting in root.update()
    tasks,           \* TodoApp.tasks
    editing_task_id  \* TodoApp.editing_task_id

\* The state of the caller.
ui == << caller, caller_pc, stdout, messagebox, password_var >>

\* The state of on_copy.
copy == << clipboard, on_copy_frames >>

\* The state of the contact book.
book == << contacts, contacts_file, returned >>

\* The state of the rock-paper-scissors game.
game == << user_score, computer_score, game_history, round_count, buttons, timers, make_choice_frames >>

\* The state of the to-do list.
todo == << tasks, editing_task_id >>

\* The frames of generate_password.
frames == << pc, length, include, pool, password_chars, result, error, randomness >>

vars == << pc, length, include, pool, password_chars, result, error, randomness,
           caller, caller_pc, stdout, messagebox, password_var,
           clipboard, on_copy_frames, contacts, contacts_file, returned,
           user_score, computer_score, game_history, round_count, buttons, timers, make_choice_frames,
           tasks, editing_task_id >>

\* Nothing copied, no on_copy running.
NoCopy ==
    /\ clipboard = << >>
    /\ on_copy_frames = << >>

\* The contact book is not running.
NoBook ==
    /\ contacts = << >>
    /\ contacts_file = << >>
    /\ returned = "None"

\* The game is not running.
NoGame ==
    /\ user_score = 0
    /\ computer_score = 0
    /\ game_history = << >>
    /\ round_count = 0
    /\ buttons = "normal"
    /\ timers = << >>
    /\ make_choice_frames = << >>

\* The to-do list is not running.
NoTodo ==
    /\ tasks = << >>
    /\ editing_task_id = ""

\* No dialog.
NoBox == [ kind |-> "none", title |-> "", text |-> "" ]

Lengths == (0 - 1)..MaxLength

\* No call of generate_password in progress.
InitFrames ==
    /\ pc = [ c \in Calls |-> "idle" ]
    /\ length = [ c \in Calls |-> 0 ]
    /\ include = [ c \in Calls |-> NoSelection ]
    /\ pool = [ c \in Calls |-> << >> ]
    /\ password_chars = [ c \in Calls |-> << >> ]
    /\ result = [ c \in Calls |-> NoResult ]
    /\ error = [ c \in Calls |-> NoError ]
    /\ randomness = [ c \in Calls |-> { } ]

\* Nothing printed, no dialog shown, password_var = tk.StringVar().
InitUi ==
    /\ stdout = { }
    /\ messagebox = NoBox
    /\ password_var = << >>

\* generate_password is called directly.
Init ==
    /\ InitFrames
    /\ InitUi
    /\ caller = "none"
    /\ caller_pc = "none"
    /\ NoCopy
    /\ NoBook
    /\ NoGame
    /\ NoTodo

\* A caller invokes generate_password(len, include_lower=.., ..) with len
\* among lens and the flags among sels.
CallWith(c, lens, sels) ==
    /\ pc[c] = "idle"
    /\ \E len \in lens, sel \in sels :
         /\ length' = [ length EXCEPT ![c] = len ]
         /\ include' = [ include EXCEPT ![c] = sel ]
    /\ pc' = [ pc EXCEPT ![c] = "check_length" ]
    /\ UNCHANGED << pool, password_chars, result, error, randomness >>

\* A call with any length and any flags.
Call(c) == CallWith(c, Lengths, Selections)

\* Lines 62-63 placed after the test of the selection.
CheckLength_after_pool(c) ==
    /\ pc[c] = "check_length"
    /\ IF build_character_pool(include[c]) = << >>
       THEN /\ error' = [ error EXCEPT ![c] = NoCategoryError ]
            /\ pc' = [ pc EXCEPT ![c] = "raised" ]
       ELSE IF LengthRejected(length[c])
       THEN /\ error' = [ error EXCEPT ![c] = LengthError ]
            /\ pc' = [ pc EXCEPT ![c] = "raised" ]
       ELSE /\ pc' = [ pc EXCEPT ![c] = "build_pool" ]
            /\ UNCHANGED error
    /\ UNCHANGED << length, include, pool, password_chars, result, randomness >>

\* Lines 62-63.
CheckLength(c) ==
    /\ pc[c] = "check_length"
    /\ IF LengthRejected(length[c])
       THEN /\ error' = [ error EXCEPT ![c] = LengthError ]
            /\ pc' = [ pc EXCEPT ![c] = "raised" ]
       ELSE /\ pc' = [ pc EXCEPT ![c] = "build_pool" ]
            /\ UNCHANGED error
    /\ UNCHANGED << length, include, pool, password_chars, result, randomness >>

\* Line 65 with pool a module-level variable that every call shares.
BuildPool_global(c) ==
    /\ pc[c] = "build_pool"
    /\ pool' = [ d \in Calls |-> build_character_pool(include[c]) ]
    /\ pc' = [ pc EXCEPT ![c] = "check_pool" ]
    /\ UNCHANGED << length, include, password_chars, result, error, randomness >>

\* Line 65.
BuildPool(c) ==
    /\ pc[c] = "build_pool"
    /\ pool' = [ pool EXCEPT ![c] = build_character_pool(include[c]) ]
    /\ pc' = [ pc EXCEPT ![c] = "check_pool" ]
    /\ UNCHANGED << length, include, password_chars, result, error, randomness >>

\* Lines 66-69.
CheckPool(c) ==
    /\ pc[c] = "check_pool"
    /\ IF PoolRejected(pool[c])
       THEN /\ error' = [ error EXCEPT ![c] = NoCategoryError ]
            /\ pc' = [ pc EXCEPT ![c] = "raised" ]
            /\ UNCHANGED password_chars
       ELSE /\ password_chars' = [ password_chars EXCEPT ![c] = << >> ]
            /\ pc' = [ pc EXCEPT ![c] = "guarantee_lower" ]
            /\ UNCHANGED error
    /\ UNCHANGED << length, include, pool, result, randomness >>

\* One of the four "if include_k: password_chars.append(secrets.choice(..))".
GuaranteeStep(c, at, k, next) ==
    /\ pc[c] = at
    /\ IF include[c][k]
       THEN /\ \E ch \in choice(GuaranteePool(k, pool[c])) :
                 password_chars' = [ password_chars EXCEPT ![c] = Append(@, ch) ]
            /\ randomness' =
                 [ randomness EXCEPT ![c] = @ \cup { << "guarantee", GuaranteeSource >> } ]
       ELSE UNCHANGED << password_chars, randomness >>
    /\ pc' = [ pc EXCEPT ![c] = next ]
    /\ UNCHANGED << length, include, pool, result, error >>

\* Lines 72-73.
GuaranteeLower(c) == GuaranteeStep(c, "guarantee_lower", "lower", "guarantee_upper")

\* Lines 74-75.
GuaranteeUpper(c) == GuaranteeStep(c, "guarantee_upper", "upper", "guarantee_digits")

\* Lines 76-77.
GuaranteeDigits(c) == GuaranteeStep(c, "guarantee_digits", "digits", "guarantee_symbols")

\* Lines 78-79.
GuaranteeSymbols(c) == GuaranteeStep(c, "guarantee_symbols", "symbols", "fill")

\* Lines 82-83 sampling without replacement: the drawn character leaves the pool.
FillDraw_without_replacement(c) ==
    /\ pc[c] = "fill"
    /\ FillCondition(password_chars[c], length[c])
    /\ \E ch \in choice(pool[c]) :
         /\ password_chars' = [ password_chars EXCEPT ![c] = Append(@, ch) ]
         /\ pool' = [ pool EXCEPT ![c] = SelectSeq(@, LAMBDA x : x # ch) ]
    /\ randomness' = [ randomness EXCEPT ![c] = @ \cup { << "fill", FillSource >> } ]
    /\ UNCHANGED << pc, length, include, result, error >>

\* Lines 82-83, one iteration.
FillDraw(c) ==
    /\ pc[c] = "fill"
    /\ FillCondition(password_chars[c], length[c])
    /\ \E ch \in choice(pool[c]) :
         password_chars' = [ password_chars EXCEPT ![c] = Append(@, ch) ]
    /\ randomness' = [ randomness EXCEPT ![c] = @ \cup { << "fill", FillSource >> } ]
    /\ UNCHANGED << pc, length, include, pool, result, error >>

\* Line 82, the loop's exit.
FillExit(c) ==
    /\ pc[c] = "fill"
    /\ ~FillCondition(password_chars[c], length[c])
    /\ pc' = [ pc EXCEPT ![c] = "shuffle" ]
    /\ UNCHANGED << length, include, pool, password_chars, result, error, randomness >>

\* Line 86.
Shuffle(c) ==
    /\ pc[c] = "shuffle"
    /\ \E d \in ShuffleDraws(Len(password_chars[c])) :
         password_chars' = [ password_chars EXCEPT ![c] = shuffle(@, d) ]
    /\ randomness' = [ randomness EXCEPT ![c] = @ \cup { << "shuffle", ShuffleSource >> } ]
    /\ pc' = [ pc EXCEPT ![c] = "return" ]
    /\ UNCHANGED << length, include, pool, result, error >>

\* Line 87.
Return(c) ==
    /\ pc[c] = "return"
    /\ result' = [ result EXCEPT ![c] = Returned(SliceTo(password_chars[c], length[c])) ]
    /\ pc' = [ pc EXCEPT ![c] = "returned" ]
    /\ UNCHANGED << length, include, pool, password_chars, error, randomness >>

\* The frame is gone but the pool is kept in a module-level cache.
Release_cached(c) ==
    /\ pc[c] \in { "returned", "raised" }
    /\ pc' = [ pc EXCEPT ![c] = "idle" ]
    /\ length' = [ length EXCEPT ![c] = 0 ]
    /\ include' = [ include EXCEPT ![c] = NoSelection ]
    /\ password_chars' = [ password_chars EXCEPT ![c] = << >> ]
    /\ result' = [ result EXCEPT ![c] = NoResult ]
    /\ error' = [ error EXCEPT ![c] = NoError ]
    /\ randomness' = [ randomness EXCEPT ![c] = { } ]
    /\ UNCHANGED pool

\* The caller has taken the string or the exception; the call's frame is gone.
Release(c) ==
    /\ pc[c] \in { "returned", "raised" }
    /\ pc' = [ pc EXCEPT ![c] = "idle" ]
    /\ length' = [ length EXCEPT ![c] = 0 ]
    /\ include' = [ include EXCEPT ![c] = NoSelection ]
    /\ pool' = [ pool EXCEPT ![c] = << >> ]
    /\ password_chars' = [ password_chars EXCEPT ![c] = << >> ]
    /\ result' = [ result EXCEPT ![c] = NoResult ]
    /\ error' = [ error EXCEPT ![c] = NoError ]
    /\ randomness' = [ randomness EXCEPT ![c] = { } ]

Step(c) ==
    \/ Call(c)
    \/ CheckLength(c)
    \/ BuildPool(c)
    \/ CheckPool(c)
    \/ GuaranteeLower(c)
    \/ GuaranteeUpper(c)
    \/ GuaranteeDigits(c)
    \/ GuaranteeSymbols(c)
    \/ FillDraw(c)
    \/ FillExit(c)
    \/ Shuffle(c)
    \/ Return(c)
    \/ Release(c)

\* The statements of generate_password, from its first test to its return.
Run(c) ==
    \/ CheckLength(c)
    \/ BuildPool(c)
    \/ CheckPool(c)
    \/ GuaranteeLower(c)
    \/ GuaranteeUpper(c)
    \/ GuaranteeDigits(c)
    \/ GuaranteeSymbols(c)
    \/ FillDraw(c)
    \/ FillExit(c)
    \/ Shuffle(c)
    \/ Return(c)

\* One caller, one call at a time.
Next == Step("A") /\ UNCHANGED << ui, copy, book, game, todo >>

Spec == Init /\ [][Next]_vars

\* One caller, one call at a time, the lengths up to MaxFairLength.
FairNext ==
    /\ CallWith("A", (0 - 1)..MaxFairLength, Selections) \/ Run("A") \/ Release("A")
    /\ UNCHANGED << ui, copy, book, game, todo >>

\* A call that has been entered keeps running: the thread executing it is
\* never suspended for ever.
FairSpec ==
    /\ Init
    /\ [][FairNext]_vars
    /\ WF_vars(Run("A") /\ UNCHANGED << ui, copy, book, game, todo >>)

\* ------------------------------------------------ two calls on two threads
\* The calls of the two threads take their lengths in 0..MaxConcLength and
\* their flags among the selections of ConcCategories.
ConcLengths == 0..MaxConcLength

ConcCategories == { "lower", "digits" }

ConcSelections == { sel \in Selections : Enabled(sel) \subseteq ConcCategories }

ConcCall(c) == CallWith(c, ConcLengths, ConcSelections)

\* The threads run their calls in any interleaving of their statements.
NextConc ==
    /\ \E c \in Calls : ConcCall(c) \/ Run(c) \/ Release(c)
    /\ UNCHANGED << ui, copy, book, game, todo >>

SpecConc == Init /\ [][NextConc]_vars

\* ------------------------------------------------------ run_cli and run_gui
\* The smallest and the largest length the callers accept.
MinCallerLength == 4

MaxCallerLength == 512

\* What the user types at the length prompt or into the length field, after
\* strip(): text for which isdigit() is false ("", "abc", "-1"), a decimal
\* numeral, or a string of digits that int() rejects ("²": isdigit() is true
\* of it and int() raises ValueError).
UserEntries ==
    { [ kind |-> "text", value |-> 0 ], [ kind |-> "digit", value |-> 0 ] }
    \cup { [ kind |-> "decimal", value |-> v ] : v \in 0..MaxLength \cup { MaxCallerLength + 1 } }

\* A printed line: a literal, the value formatted into it, and for the
\* password line the password's characters.
Line(text, arg) == [ text |-> text, arg |-> arg, chars |-> << >> ]

PasswordLine(chars) == [ text |-> "{password}", arg |-> "", chars |-> chars ]

NoCategoriesLine == Line("No categories selected. Defaulting to lowercase letters.", "")

\* messagebox.showerror(title, text).
ShowError(title, text) == [ kind |-> "showerror", title |-> title, text |-> text ]

NoSetsBox == ShowError("No character sets", "Select at least one character set.")

\* Lines 101-103 left out.
CliFallback_none(sel) == sel

\* Lines 101-103: no category chosen, include_lower = True.
CliFallback(sel) ==
    IF Enabled(sel) = { } THEN [ sel EXCEPT !["lower"] = TRUE ] ELSE sel

\* The answers the CLI runs are explored with: Lowercase and Digits each
\* accepted or declined, Uppercase and Symbols declined.
CliAnswers ==
    { sel \in Selections : Enabled(sel) \subseteq { "lower", "digits" } }

\* The sets of boxes the GUI runs are explored with: none ticked, Lowercase
\* alone, Digits alone.
GuiSelections ==
    { sel \in Selections :
        Enabled(sel) \subseteq { "lower", "digits" } /\ Cardinality(Enabled(sel)) <= 1 }

\* main() has started run_cli or run_gui.
InitCallers ==
    /\ InitFrames
    /\ InitUi
    /\ caller \in { "run_cli", "run_gui" }
    /\ caller_pc = IF caller = "run_cli" THEN "start" ELSE "mainloop"
    /\ NoCopy
    /\ NoBook
    /\ NoGame
    /\ NoTodo

\* Lines 91-92.
CliBanner ==
    /\ caller = "run_cli"
    /\ caller_pc = "start"
    /\ stdout' = stdout \cup { Line("Password Generator (secure)", ""),
                               Line("---------------------------", "") }
    /\ caller_pc' = "prompt_length"
    /\ UNCHANGED << pc, length, include, pool, password_chars, result, error, randomness,
                    caller, messagebox, password_var >>

\* prompt_int, lines 8-18: an entry that is refused and asked for again.
CliRejectEntry ==
    /\ caller = "run_cli"
    /\ caller_pc = "prompt_length"
    /\ \E e \in UserEntries :
         \/ /\ e.kind = "text"
            /\ stdout' = stdout \cup { Line("Please enter a valid positive number.", "") }
         \/ /\ e.kind = "decimal"
            /\ e.value < MinCallerLength
            /\ stdout' = stdout \cup
                 { Line("Please enter a number greater than or equal to {minimum}.", "4") }
         \/ /\ e.kind = "decimal"
            /\ e.value >= MinCallerLength
            /\ e.value > MaxCallerLength
            /\ stdout' = stdout \cup
                 { Line("Please enter a number less than or equal to {maximum}.", "512") }
    /\ UNCHANGED << pc, length, include, pool, password_chars, result, error, randomness,
                    caller, caller_pc, messagebox, password_var >>

\* prompt_int, line 12: int(raw) raises ValueError, which nothing catches.
CliEntryError ==
    /\ caller = "run_cli"
    /\ caller_pc = "prompt_length"
    /\ \E e \in UserEntries : e.kind = "digit"
    /\ caller_pc' = "crashed"
    /\ UNCHANGED << pc, length, include, pool, password_chars, result, error, randomness,
                    caller, stdout, messagebox, password_var >>

\* prompt_int returns (line 19), the four prompt_yes_no return, lines 101-103,
\* and generate_password is entered (line 106).
CliCall ==
    /\ caller = "run_cli"
    /\ caller_pc = "prompt_length"
    /\ \E e \in UserEntries, answers \in CliAnswers, asked_again \in BOOLEAN :
         /\ e.kind = "decimal"
         /\ e.value >= MinCallerLength
         /\ e.value <= MaxCallerLength
         /\ CallWith("A", { e.value }, { CliFallback(answers) })
         /\ stdout' = stdout
              \cup (IF asked_again THEN { Line("Please respond with 'y' or 'n'.", "") } ELSE { })
              \cup (IF Enabled(answers) = { } THEN { NoCategoriesLine } ELSE { })
    /\ caller_pc' = "calling"
    /\ UNCHANGED << caller, messagebox, password_var >>

\* Lines 113-118: the call has ended.
CliFinish ==
    /\ caller = "run_cli"
    /\ caller_pc = "calling"
    /\ Release("A")
    /\ stdout' =
         IF pc["A"] = "raised"
         THEN stdout \cup { Line("Error: {exc}", error["A"].message) }
         ELSE stdout \cup { Line("\nGenerated password:", ""),
                            PasswordLine(result["A"].value) }
    /\ caller_pc' = "done"
    /\ UNCHANGED << caller, messagebox, password_var >>

\* on_generate with every early return followed by password_var.set("").
GuiReject_clears ==
    /\ caller = "run_gui"
    /\ caller_pc = "mainloop"
    /\ \E e \in UserEntries, sel \in GuiSelections :
         \/ /\ e.kind = "text"
            /\ messagebox' = ShowError("Invalid input", "Length must be a positive number.")
         \/ /\ e.kind = "decimal"
            /\ (e.value < MinCallerLength \/ e.value > MaxCallerLength)
            /\ messagebox' = ShowError("Invalid length",
                                       "Please choose a length between 4 and 512.")
         \/ /\ e.kind = "decimal"
            /\ ~(e.value < MinCallerLength \/ e.value > MaxCallerLength)
            /\ Enabled(sel) = { }
            /\ messagebox' = NoSetsBox
    /\ password_var' = << >>
    /\ UNCHANGED << pc, length, include, pool, password_chars, result, error, randomness,
                    caller, caller_pc, stdout >>

\* on_generate, lines 163-177: the click is refused, or int() raises.
GuiReject ==
    /\ caller = "run_gui"
    /\ caller_pc = "mainloop"
    /\ \E e \in UserEntries, sel \in GuiSelections :
         \/ /\ e.kind = "text"
            /\ messagebox' = ShowError("Invalid input", "Length must be a positive number.")
         \/ /\ e.kind = "digit"
            /\ messagebox' = NoBox
         \/ /\ e.kind = "decimal"
            /\ (e.value < MinCallerLength \/ e.value > MaxCallerLength)
            /\ messagebox' = ShowError("Invalid length",
                                       "Please choose a length between 4 and 512.")
         \/ /\ e.kind = "decimal"
            /\ ~(e.value < MinCallerLength \/ e.value > MaxCallerLength)
            /\ Enabled(sel) = { }
            /\ messagebox' = NoSetsBox
    /\ UNCHANGED << pc, length, include, pool, password_chars, result, error, randomness,
                    caller, caller_pc, stdout, password_var >>

\* on_generate without the test of line 168.
GuiGenerate_any_length ==
    /\ caller = "run_gui"
    /\ caller_pc = "mainloop"
    /\ \E e \in UserEntries, sel \in GuiSelections :
         /\ e.kind = "decimal"
         /\ Enabled(sel) # { }
         /\ CallWith("A", { e.value }, { sel })
    /\ messagebox' = NoBox
    /\ caller_pc' = "on_generate"
    /\ UNCHANGED << caller, stdout, password_var >>

\* on_generate, lines 163-179: the click passes the three tests and
\* generate_password is entered.
GuiGenerate ==
    /\ caller = "run_gui"
    /\ caller_pc = "mainloop"
    /\ \E e \in UserEntries, sel \in GuiSelections :
         /\ e.kind = "decimal"
         /\ ~(e.value < MinCallerLength \/ e.value > MaxCallerLength)
         /\ Enabled(sel) # { }
         /\ CallWith("A", { e.value }, { sel })
    /\ messagebox' = NoBox
    /\ caller_pc' = "on_generate"
    /\ UNCHANGED << caller, stdout, password_var >>

\* on_generate, lines 186-190: the call has ended.
GuiFinish ==
    /\ caller = "run_gui"
    /\ caller_pc = "on_generate"
    /\ Release("A")
    /\ IF pc["A"] = "raised"
       THEN /\ messagebox' = ShowError("Error", error["A"].message)
            /\ UNCHANGED password_var
       ELSE /\ password_var' = result["A"].value
            /\ UNCHANGED messagebox
    /\ caller_pc' = "mainloop"
    /\ UNCHANGED << caller, stdout >>

\* The program main() started: run_cli once, or the GUI's clicks on Generate.
NextCallers ==
    \/ CliBanner /\ UNCHANGED << copy, book, game, todo >>
    \/ CliRejectEntry /\ UNCHANGED << copy, book, game, todo >>
    \/ CliEntryError /\ UNCHANGED << copy, book, game, todo >>
    \/ CliCall /\ UNCHANGED << copy, book, game, todo >>
    \/ CliFinish /\ UNCHANGED << copy, book, game, todo >>
    \/ GuiReject /\ UNCHANGED << copy, book, game, todo >>
    \/ GuiGenerate /\ UNCHANGED << copy, book, game, todo >>
    \/ GuiFinish /\ UNCHANGED << copy, book, game, todo >>
    \/ Run("A") /\ UNCHANGED << ui, copy, book, game, todo >>

SpecCallers == InitCallers /\ [][NextCallers]_vars

\* ----------------------------------------------------------- run_gui.on_copy
\* messagebox.showinfo(title, text).
ShowInfo(title, text) == [ kind |-> "showinfo", title |-> title, text |-> text ]

NothingToCopyBox == ShowInfo("Nothing to copy", "Generate a password first.")

CopiedBox == ShowInfo("Copied", "Password copied to clipboard.")

\* The contents of the password field on_copy is explored on: the strings of
\* at most MaxField characters over a letter and a space.  The field is a
\* ttk.Entry the user can type into, so it holds more than generated
\* passwords.
FieldContents == UNION { [ 1..n -> { "a", " " } ] : n \in 0..MaxField }

\* The window is open; the field and the clipboard hold anything.
InitCopy ==
    /\ InitFrames
    /\ caller = "run_gui"
    /\ caller_pc = "mainloop"
    /\ stdout = { }
    /\ messagebox = NoBox
    /\ password_var \in FieldContents
    /\ clipboard \in FieldContents
    /\ on_copy_frames = << >>
    /\ NoBook
    /\ NoGame
    /\ NoTodo

\* The field gets a new content: the user types into password_entry
\* (textvariable=password_var), or an on_generate stores a password.
FieldChange ==
    /\ password_var' \in FieldContents \ { password_var }
    /\ UNCHANGED << clipboard, on_copy_frames, messagebox >>

\* on_copy without the test of line 194.
on_copy_unguarded ==
    /\ Len(on_copy_frames) < MaxCopyDepth
    /\ clipboard' = password_var
    /\ on_copy_frames' = Append(on_copy_frames, password_var)
    /\ UNCHANGED << messagebox, password_var >>

\* on_copy, lines 193-199: from the click to root.update(), or to the return
\* of line 196.  root.update() handles the events that are waiting, a click
\* on Copy among them, before on_copy goes on.
on_copy ==
    /\ Len(on_copy_frames) < MaxCopyDepth
    /\ LET pwd == password_var
       IN  IF pwd = << >>
           THEN /\ messagebox' = NothingToCopyBox
                /\ UNCHANGED << clipboard, on_copy_frames >>
           ELSE /\ clipboard' = pwd
                /\ on_copy_frames' = Append(on_copy_frames, pwd)
                /\ UNCHANGED messagebox
    /\ UNCHANGED password_var

\* on_copy, line 200: root.update() has returned.
on_copy_after_update ==
    /\ on_copy_frames # << >>
    /\ on_copy_frames' = SubSeq(on_copy_frames, 1, Len(on_copy_frames) - 1)
    /\ messagebox' = CopiedBox
    /\ UNCHANGED << clipboard, password_var >>

NextCopy ==
    \/ FieldChange /\ UNCHANGED << frames, caller, caller_pc, stdout, book, game, todo >>
    \/ on_copy /\ UNCHANGED << frames, caller, caller_pc, stdout, book, game, todo >>
    \/ on_copy_after_update
          /\ UNCHANGED << frames, caller, caller_pc, stdout, book, game, todo >>

SpecCopy == InitCopy /\ [][NextCopy]_vars

\* ------------------------------------------- Contact_Book/ContactBook.py
\* The phone numbers and names the calls are made with.
SamplePhones == << "555-0100", "555-0101", "555-0102", "555-0103", "555-0104", "555-0105" >>

SampleNames == << "Ann", "Bob", "Cy", "Di", "Ed", "Flo" >>

Phones == { SamplePhones[i] : i \in 1..Min(MaxPhones, Len(SamplePhones)) }

Names == { SampleNames[i] : i \in 1..Min(MaxNames, Len(SampleNames)) }

\* Contact(name, phone, email, address).
Contact(name, phone, email, address) ==
    [ name |-> name, phone |-> phone, email |-> email, address |-> address ]

\* The contact lists load_contacts is explored on: those of at most
\* MaxPhones contacts, no two with the same phone.
LoadedBooks ==
    LET Records == { Contact(n, ph, "", "") : n \in Names, ph \in Phones }
    IN  { b \in UNION { [ 1..n -> Records ] : n \in 0..MaxPhones } :
            \A i, j \in DOMAIN b : i # j => b[i].phone # b[j].phone }

\* ContactBook(): contacts.json is absent ([]) or holds one of LoadedBooks.
InitBook ==
    /\ InitFrames
    /\ InitUi
    /\ caller = "none"
    /\ caller_pc = "none"
    /\ NoCopy
    /\ contacts \in LoadedBooks
    /\ contacts_file = contacts
    /\ returned = "None"
    /\ NoGame
    /\ NoTodo

\* any(contact.phone == phone for contact in self.contacts)
HasPhone(list, phone) == \E i \in DOMAIN list : list[i].phone = phone

\* find_contact_by_phone: the place of the first contact with that phone,
\* 0 for None.
find_contact_by_phone(list, phone) ==
    IF HasPhone(list, phone)
    THEN CHOOSE i \in DOMAIN list :
           /\ list[i].phone = phone
           /\ \A j \in 1..(i - 1) : list[j].phone # phone
    ELSE 0

\* list.remove(list[i]).
RemoveAt(list, i) == SubSeq(list, 1, i - 1) \o SubSeq(list, i + 1, Len(list))

\* save_contacts: contacts.json is rewritten.
save_contacts(list) == contacts_file' = list

\* add_contact without the test of line 85.
add_contact_unchecked(name, phone, email, address) ==
    /\ contacts' = Append(contacts, Contact(name, phone, email, address))
    /\ save_contacts(contacts')
    /\ returned' = "True"

\* Lines 82-91.
add_contact(name, phone, email, address) ==
    IF HasPhone(contacts, phone)
    THEN /\ returned' = "False"
         /\ UNCHANGED << contacts, contacts_file >>
    ELSE /\ contacts' = Append(contacts, Contact(name, phone, email, address))
         /\ save_contacts(contacts')
         /\ returned' = "True"

\* update_contact without the test of line 117.
update_contact_unchecked(phone, new_name, new_phone, new_email, new_address) ==
    LET contact == find_contact_by_phone(contacts, phone)
    IN  IF contact = 0
        THEN /\ returned' = "False"
             /\ UNCHANGED << contacts, contacts_file >>
        ELSE /\ contacts' = [ contacts EXCEPT
                                ![contact] = Contact(new_name, new_phone, new_email, new_address) ]
             /\ save_contacts(contacts')
             /\ returned' = "True"

\* Lines 110-126.
update_contact(phone, new_name, new_phone, new_email, new_address) ==
    LET contact == find_contact_by_phone(contacts, phone)
    IN  IF contact = 0
        THEN /\ returned' = "False"
             /\ UNCHANGED << contacts, contacts_file >>
        ELSE IF new_phone # phone /\ HasPhone(contacts, new_phone)
        THEN /\ returned' = "False"
             /\ UNCHANGED << contacts, contacts_file >>
        ELSE /\ contacts' = [ contacts EXCEPT
                                ![contact] = Contact(new_name, new_phone, new_email, new_address) ]
             /\ save_contacts(contacts')
             /\ returned' = "True"

\* Lines 128-136.
delete_contact(phone) ==
    LET contact == find_contact_by_phone(contacts, phone)
    IN  IF contact = 0
        THEN /\ returned' = "False"
             /\ UNCHANGED << contacts, contacts_file >>
        ELSE /\ contacts' = RemoveAt(contacts, contact)
             /\ save_contacts(contacts')
             /\ returned' = "True"

\* Any call of the three methods, with any name and phone.
NextBook ==
    \/ /\ \E name \in Names, phone \in Phones : add_contact(name, phone, "", "")
       /\ UNCHANGED << frames, ui, copy, game, todo >>
    \/ /\ \E phone \in Phones, new_name \in Names, new_phone \in Phones :
            update_contact(phone, new_name, new_phone, "", "")
       /\ UNCHANGED << frames, ui, copy, game, todo >>
    \/ /\ \E phone \in Phones : delete_contact(phone)
       /\ UNCHANGED << frames, ui, copy, game, todo >>

SpecBook == InitBook /\ [][NextBook]_vars

\* ---------------------------------------------------- Rock_Paper_Sci/RPS.py
Weapons == { "Rock", "Paper", "Scissors" }

\* winning_combinations: what each weapon beats.
winning_combinations == [ Rock |-> "Scissors", Paper |-> "Rock", Scissors |-> "Paper" ]

determine_winner(user_choice, computer_choice) ==
    IF user_choice = computer_choice THEN "tie"
    ELSE IF winning_combinations[user_choice] = computer_choice THEN "user"
    ELSE "computer"

\* The line add_to_history builds: "Round {round_count}: You .. vs Computer
\* .. - " and the outcome.
history_entry(round, user_choice, computer_choice, outcome) ==
    [ round |-> round, user |-> user_choice, computer |-> computer_choice,
      outcome |-> outcome ]

\* ModernRockPaperScissorsGUI.__init__, then root.mainloop().
InitGame ==
    /\ InitFrames
    /\ InitUi
    /\ caller = "none"
    /\ caller_pc = "none"
    /\ NoCopy
    /\ NoBook
    /\ user_score = 0
    /\ computer_score = 0
    /\ game_history = << >>
    /\ round_count = 0
    /\ buttons = "normal"
    /\ timers = << >>
    /\ make_choice_frames = << >>
    /\ NoTodo

\* The rounds played, scheduled or being scheduled.
RoundsStarted == round_count + Len(timers) + Len(make_choice_frames)

\* make_choice without disable_buttons().
make_choice_buttons_left_on(user_choice) ==
    /\ buttons = "normal"
    /\ RoundsStarted < MaxRounds
    /\ make_choice_frames' = Append(make_choice_frames, user_choice)
    /\ UNCHANGED << user_score, computer_score, game_history, round_count, buttons, timers >>

\* A click on a weapon button, which Tk delivers only while the button is
\* not disabled: make_choice, lines 316-322, up to root.update().
\* root.update() handles the events that are waiting (clicks, timers that
\* are due) before make_choice goes on.
make_choice(user_choice) ==
    /\ buttons = "normal"
    /\ RoundsStarted < MaxRounds
    /\ buttons' = "disabled"
    /\ make_choice_frames' = Append(make_choice_frames, user_choice)
    /\ UNCHANGED << user_score, computer_score, game_history, round_count, timers >>

\* make_choice, line 325: root.update() has returned, play_round is
\* scheduled.
make_choice_after_update ==
    /\ make_choice_frames # << >>
    /\ timers' = Append(timers, make_choice_frames[Len(make_choice_frames)])
    /\ make_choice_frames' = SubSeq(make_choice_frames, 1, Len(make_choice_frames) - 1)
    /\ UNCHANGED << user_score, computer_score, game_history, round_count, buttons >>

\* The oldest timer fires: play_round, lines 327-352, with add_to_history.
play_round ==
    /\ timers # << >>
    /\ LET user_choice == Head(timers)
       IN  \E computer_choice \in Weapons :
             LET outcome == determine_winner(user_choice, computer_choice)
             IN  /\ round_count' = round_count + 1
                 /\ user_score' = IF outcome = "user" THEN user_score + 1 ELSE user_score
                 /\ computer_score' =
                      IF outcome = "computer" THEN computer_score + 1 ELSE computer_score
                 /\ game_history' =
                      Append(game_history,
                             history_entry(round_count', user_choice, computer_choice, outcome))
    /\ timers' = Tail(timers)
    /\ buttons' = "normal"
    /\ UNCHANGED make_choice_frames

\* Lines 431-439.
reset_game ==
    /\ user_score' = 0
    /\ computer_score' = 0
    /\ game_history' = << >>
    /\ round_count' = 0
    /\ UNCHANGED << buttons, timers, make_choice_frames >>

NextGame ==
    \/ /\ \E user_choice \in Weapons : make_choice(user_choice)
       /\ UNCHANGED << frames, ui, copy, book, todo >>
    \/ make_choice_after_update /\ UNCHANGED << frames, ui, copy, book, todo >>
    \/ play_round /\ UNCHANGED << frames, ui, copy, book, todo >>
    \/ reset_game /\ UNCHANGED << frames, ui, copy, book, todo >>

SpecGame == InitGame /\ [][NextGame]_vars

\* ----------------------------------------------------- To_Do_List/todolist.py
\* The values str(uuid.uuid4()) is explored on.
SampleUuids == << "uuid-1", "uuid-2", "uuid-3", "uuid-4", "uuid-5", "uuid-6", "uuid-7" >>

UuidPool == { SampleUuids[i] : i \in 1..Min(MaxTasks + 1, Len(SampleUuids)) }

\* Task(id, title, due_date, completed); description, priority and the two
\* time stamps are left out.
Task(id, title, due_date, completed) ==
    [ id |-> id, title |-> title, due_date |-> due_date, completed |-> completed ]

TaskIds(list) == { list[i].id : i \in DOMAIN list }

\* parse_date(date_str) is not None, for the two due dates tried.
ValidDate(date_str) == date_str = "2025-01-31"

\* What the user types into the title and the due date fields.
TitleEntries == { "", "Buy milk" }

DueEntries == { "", "soon" }

\* The items of an imported file: the value of "id" ("" when the key is
\* missing, null or empty) and of "completed".  An id is one of this list's
\* own, as in a file it exported, or one written by hand.
ImportItems(list) ==
    { [ id |-> id, completed |-> done ] :
        id \in { "", "task-1" } \cup TaskIds(list), done \in BOOLEAN }

\* The files import_tasks is explored on: lists of at most MaxImport items.
ImportFiles(list) == UNION { [ 1..n -> ImportItems(list) ] : n \in 0..MaxImport }

\* TodoApp.__init__ with no tasks.json: the list is empty.
InitTodo ==
    /\ InitFrames
    /\ InitUi
    /\ caller = "none"
    /\ caller_pc = "none"
    /\ NoCopy
    /\ NoBook
    /\ NoGame
    /\ tasks = << >>
    /\ editing_task_id = ""

\* _find_task: the place of the first task with that id, 0 for None.
find_task(task_id) ==
    IF task_id \in TaskIds(tasks)
    THEN CHOOSE i \in DOMAIN tasks :
           /\ tasks[i].id = task_id
           /\ \A j \in 1..(i - 1) : tasks[j].id # task_id
    ELSE 0

\* Lines 274-311.  A new task gets str(uuid.uuid4()), an id no task has.
add_or_update_task(title, due_str) ==
    IF title = "" \/ (due_str # "" /\ ~ValidDate(due_str))
    THEN UNCHANGED << tasks, editing_task_id >>
    ELSE IF editing_task_id # ""
    THEN LET task == find_task(editing_task_id)
         IN  IF task = 0
             THEN UNCHANGED << tasks, editing_task_id >>
             ELSE /\ tasks' = [ tasks EXCEPT ![task].title = title,
                                             ![task].due_date = due_str ]
                  /\ editing_task_id' = ""
    ELSE /\ Len(tasks) < MaxTasks
         /\ \E id \in UuidPool \ TaskIds(tasks) :
              tasks' = Append(tasks, Task(id, title, due_str, FALSE))
         /\ editing_task_id' = ""

\* Lines 313-327, task_id the first selected row.
edit_selected_into_form(task_id) ==
    /\ find_task(task_id) # 0
    /\ editing_task_id' = task_id
    /\ UNCHANGED tasks

\* Lines 329-335.
clear_form ==
    /\ editing_task_id' = ""
    /\ UNCHANGED tasks

\* Lines 337-346, items the selected rows, confirmed the answer to askyesno.
delete_selected(items, confirmed) ==
    /\ items # { }
    /\ tasks' = IF confirmed THEN SelectSeq(tasks, LAMBDA t : t.id \notin items) ELSE tasks
    /\ UNCHANGED editing_task_id

\* Lines 348-358.
toggle_complete_selected(items) ==
    /\ items # { }
    /\ tasks' = [ i \in DOMAIN tasks |->
                    IF tasks[i].id \in items
                    THEN [ tasks[i] EXCEPT !.completed = ~tasks[i].completed ]
                    ELSE tasks[i] ]
    /\ UNCHANGED editing_task_id

\* Lines 360-367.
clear_completed(confirmed) ==
    /\ \E i \in DOMAIN tasks : tasks[i].completed
    /\ tasks' = IF confirmed THEN SelectSeq(tasks, LAMBDA t : ~t.completed) ELSE tasks
    /\ UNCHANGED editing_task_id

\* Lines 381-398 and Task.from_dict: an item without an id gets a uuid, an
\* item whose id is in existing_ids (the ids of the list before the import)
\* gets a uuid, every other item keeps the id of the file; the uuids are new
\* and all different.  readable is false for a file json.load or from_dict
\* fail on.
import_tasks(file, readable) ==
    IF ~readable
    THEN UNCHANGED << tasks, editing_task_id >>
    ELSE /\ Len(tasks) + Len(file) <= MaxTasks
         /\ LET existing_ids == TaskIds(tasks)
                renewed == { i \in DOMAIN file : file[i].id = "" \/ file[i].id \in existing_ids }
                taken == existing_ids \cup { file[i].id : i \in DOMAIN file }
            IN  \E uuid4 \in [ renewed -> UuidPool \ taken ] :
                  /\ \A i, j \in renewed : i # j => uuid4[i] # uuid4[j]
                  /\ tasks' = tasks \o
                       [ i \in DOMAIN file |->
                           Task(IF i \in renewed THEN uuid4[i] ELSE file[i].id,
                                "Untitled", "", file[i].completed) ]
         /\ UNCHANGED editing_task_id

NextTodo ==
    \/ /\ \E title \in TitleEntries, due_str \in DueEntries : add_or_update_task(title, due_str)
       /\ UNCHANGED << frames, ui, copy, book, game >>
    \/ /\ \E task_id \in TaskIds(tasks) : edit_selected_into_form(task_id)
       /\ UNCHANGED << frames, ui, copy, book, game >>
    \/ clear_form /\ UNCHANGED << frames, ui, copy, book, game >>
    \/ /\ \E items \in SUBSET TaskIds(tasks), confirmed \in BOOLEAN :
            delete_selected(items, confirmed)
       /\ UNCHANGED << frames, ui, copy, book, game >>
    \/ /\ \E items \in SUBSET TaskIds(tasks) : toggle_complete_selected(items)
       /\ UNCHANGED << frames, ui, copy, book, game >>
    \/ /\ \E confirmed \in BOOLEAN : clear_completed(confirmed)
       /\ UNCHANGED << frames, ui, copy, book, game >>
    \/ /\ \E file \in ImportFiles(tasks), readable \in BOOLEAN : import_tasks(file, readable)
       /\ UNCHANGED << frames, ui, copy, book, game >>

SpecTodo == InitTodo /\ [][NextTodo]_vars

\* ------------------------------------------------------------------ claims
\* The number of enabled categories of call c.
EnabledCount(c) == Cardinality(Enabled(include[c]))

\* A valid request: length >= 1, a category enabled, length >= their number.
Valid(c) ==
    /\ length[c] >= 1
    /\ EnabledCount(c) >= 1
    /\ length[c] >= EnabledCount(c)

\* The characters of the categories call c enabled.
EnabledChars(c) == UNION { Range(CategoryChars[k]) : k \in Enabled(include[c]) }

\* C1: a valid request does not raise, and the string it returns has exactly
\* `length` characters.
C1_LengthExact ==
    \A c \in Calls :
        Valid(c) =>
            /\ pc[c] # "raised"
            /\ pc[c] = "returned" =>
                 /\ result[c].returned
                 /\ Len(result[c].value) = length[c]

\* A valid call returned after fill draws (length 3, two categories).
C1_Witness ==
    \E c \in Calls :
        /\ pc[c] = "returned"
        /\ length[c] = 3
        /\ EnabledCount(c) = 2
        /\ Len(result[c].value) = 3

\* C2: the string a valid request returns holds, for every enabled category,
\* at least one character of that category's pool.
C2_Coverage ==
    \A c \in Calls :
        (pc[c] = "returned" /\ Valid(c)) =>
            \A k \in Enabled(include[c]) :
                \E i \in DOMAIN result[c].value :
                    result[c].value[i] \in Range(CategoryChars[k])

\* A valid call with three categories and a fill draw returned, its first
\* character not a lowercase letter.
C2_Witness ==
    \E c \in Calls :
        /\ pc[c] = "returned"
        /\ length[c] = 4
        /\ Enabled(include[c]) = { "lower", "digits", "symbols" }
        /\ result[c].value[1] \notin Range(ascii_lowercase)

\* C3: every character of a returned string is in the pool of an enabled
\* category, and none is in the pool of a disabled one.
C3_Closure ==
    \A c \in Calls :
        pc[c] = "returned" =>
            \A i \in DOMAIN result[c].value :
                /\ result[c].value[i] \in EnabledChars(c)
                /\ \A k \in CategoryNames \ Enabled(include[c]) :
                       result[c].value[i] \notin Range(CategoryChars[k])

\* A call with digits and symbols disabled returned four characters, two of
\* them fill draws.
C3_Witness ==
    \E c \in Calls :
        /\ pc[c] = "returned"
        /\ Enabled(include[c]) = { "lower", "upper" }
        /\ Len(result[c].value) = 4

\* C5: a call with length < 1 makes no draw, returns nothing and raises the
\* length error, whatever the selection.
C5_InvalidLength ==
    \A c \in Calls :
        (pc[c] # "idle" /\ length[c] < 1) =>
            /\ pc[c] \in { "check_length", "raised" }
            /\ pc[c] = "raised" => error[c] = LengthError
            /\ ~result[c].returned
            /\ randomness[c] = { }

\* A call with length 0 and lowercase enabled raised.
C5_Witness ==
    \E c \in Calls :
        /\ pc[c] = "raised"
        /\ length[c] = 0
        /\ include[c]["lower"]
        /\ error[c] = LengthError

\* C6: a call with length >= 1 and no category enabled raises the
\* no-category error: its pool stays empty (no default category), it makes
\* no draw and it returns nothing.
C6_NoCategory ==
    \A c \in Calls :
        (length[c] >= 1 /\ Enabled(include[c]) = { }) =>
            /\ pc[c] \in { "check_length", "build_pool", "check_pool", "raised" }
            /\ pc[c] = "raised" => error[c] = NoCategoryError
            /\ pool[c] = << >>
            /\ password_chars[c] = << >>
            /\ ~result[c].returned

\* A call with length 3 and no category raised the no-category error.
C6_Witness ==
    \E c \in Calls :
        /\ pc[c] = "raised"
        /\ length[c] = 3
        /\ Enabled(include[c]) = { }
        /\ error[c] = NoCategoryError

\* Which of generate's failure conditions the request of call c meets, in
\* the order they are tested.
Condition(c) ==
    IF length[c] < 1 THEN "invalid_length"
    ELSE IF Enabled(include[c]) = { } THEN "no_category"
    ELSE IF EnabledCount(c) > length[c] THEN "too_short"
    ELSE "valid"

\* C4: a call with length >= 1 and more enabled categories than length
\* fails: it never returns a string.
C4_TooShortRejected ==
    \A c \in Calls :
        (length[c] >= 1 /\ EnabledCount(c) > length[c]) => pc[c] # "returned"

\* C7: the three failure conditions raise three different errors: the
\* length error, the no-category error, and for more categories than length
\* an error that is neither of them.
C7_ThreeErrorKinds ==
    \A c \in Calls :
        pc[c] \in { "returned", "raised" } =>
            /\ LengthError # NoCategoryError
            /\ Condition(c) = "invalid_length" =>
                 (pc[c] = "raised" /\ error[c] = LengthError)
            /\ Condition(c) = "no_category" =>
                 (pc[c] = "raised" /\ error[c] = NoCategoryError)
            /\ Condition(c) = "too_short" =>
                 (pc[c] = "raised" /\ error[c] \notin { NoError, LengthError, NoCategoryError })

\* The category of a pool character.
CategoryOf(ch) == CHOOSE k \in CategoryNames : ch \in Range(CategoryChars[k])

\* The categories of a string's characters, position by position.
CategorySeq(chars) == [ i \in DOMAIN chars |-> CategoryOf(chars[i]) ]

\* The orderings of the categories S over Cardinality(S) positions.
Orderings(S) ==
    { o \in [ 1..Cardinality(S) -> S ] :
        \A i, j \in 1..Cardinality(S) : o[i] = o[j] => i = j }

\* C8: when length equals the number of enabled categories, the returned
\* string has exactly one character of each enabled category, and the
\* shuffle can leave the categories in every one of their orderings.
C8_OnePerCategoryAnyOrder ==
    \A c \in Calls :
        (Valid(c) /\ length[c] = EnabledCount(c)) =>
            /\ pc[c] = "returned" =>
                 /\ Len(result[c].value) = EnabledCount(c)
                 /\ \A k \in Enabled(include[c]) :
                        Cardinality({ i \in DOMAIN result[c].value :
                                        result[c].value[i] \in Range(CategoryChars[k]) }) = 1
            /\ pc[c] = "shuffle" =>
                 \A o \in Orderings(Enabled(include[c])) :
                     ENABLED (Shuffle(c) /\ CategorySeq(password_chars'[c]) = o)

\* generate(4, all four categories) returned its characters in the reverse
\* of the order they were drawn in.
C8_Witness ==
    \E c \in Calls :
        /\ pc[c] = "returned"
        /\ length[c] = 4
        /\ EnabledCount(c) = 4
        /\ CategorySeq(result[c].value) = << "symbols", "digits", "upper", "lower" >>

RECURSIVE Factorial(_)
Factorial(n) == IF n <= 1 THEN 1 ELSE n * Factorial(n - 1)

\* The orderings of n positions the shuffle's draw sequences produce.
ShuffleImages(n) == { shuffle([ i \in 1..n |-> i ], d) : d \in ShuffleDraws(n) }

SecureSources == { "secrets.choice", "secrets.SystemRandom" }

Inputs(c) == << length[c], include[c] >>

\* Call c has ended, by a return or by an exception.
Ended(c) == pc[c] \in { "returned", "raised" }

Covered(c) ==
    \A k \in Enabled(include[c]) :
        \E i \in DOMAIN result[c].value : result[c].value[i] \in Range(CategoryChars[k])

\* C12: whatever the interleaving of the two threads' statements, the string
\* a call returns has the length that call asked for, holds only characters
\* of the categories that call enabled, and (for a valid request) covers them.
C12_NoInterference ==
    \A c \in Calls :
        pc[c] = "returned" =>
            /\ Len(result[c].value) = length[c]
            /\ \A i \in DOMAIN result[c].value : result[c].value[i] \in EnabledChars(c)
            /\ Valid(c) => Covered(c)

\* Both calls are in their fill loops at once, with different selections, and
\* call A has made a fill draw.
C12_Witness ==
    /\ pc["A"] = "fill"
    /\ pc["B"] = "fill"
    /\ Enabled(include["A"]) = { "lower" }
    /\ Enabled(include["B"]) = { "digits" }
    /\ Len(password_chars["A"]) = 2
    /\ Len(password_chars["B"]) = 1

\* C16: a call leaves nothing behind: a frame that is idle holds the values
\* it had before the first call, and a call that has just been entered has
\* the locals of a first call, whatever calls ran or run beside it.
C16_Stateless ==
    \A c \in Calls :
        /\ pc[c] \in { "idle", "check_length" } =>
             /\ pool[c] = << >>
             /\ password_chars[c] = << >>
             /\ result[c] = NoResult
             /\ error[c] = NoError
             /\ randomness[c] = { }
        /\ pc[c] = "idle" => (length[c] = 0 /\ include[c] = NoSelection)

\* Call A is entered after call B has returned a two-character string for
\* the same arguments.
C16_Witness ==
    /\ pc["A"] = "check_length"
    /\ pc["B"] = "returned"
    /\ Inputs("A") = Inputs("B")
    /\ Len(result["B"].value) = 2

\* The states of a call in which the next statement may call secrets.choice.
GuaranteeStages ==
    [ guarantee_lower |-> "lower", guarantee_upper |-> "upper",
      guarantee_digits |-> "digits", guarantee_symbols |-> "symbols" ]

\* C13: every secrets.choice call gets a non-empty sequence: the literal of
\* an enabled category in the guarantee step, and in the fill loop a pool
\* that passed the test of line 66.
C13_SamplerNeverEmpty ==
    \A c \in Calls :
        /\ \A at \in DOMAIN GuaranteeStages :
               (pc[c] = at /\ include[c][GuaranteeStages[at]]) =>
                   GuaranteePool(GuaranteeStages[at], pool[c]) # << >>
        /\ pc[c] \in DOMAIN GuaranteeStages \cup { "fill" } => pool[c] # << >>
        /\ randomness[c] # { } => pool[c] # << >>

\* A fill draw was made from a pool of 36 characters.
C13_Witness ==
    \E c \in Calls :
        /\ pc[c] = "fill"
        /\ Len(password_chars[c]) > EnabledCount(c)
        /\ Len(pool[c]) = 36

\* The position of category k in the fixed order.
CategoryIndex(k) == CHOOSE i \in DOMAIN Categories : Categories[i] = k

\* The number of characters of the enabled categories among the first n.
RECURSIVE EnabledLength(_, _)
EnabledLength(sel, n) ==
    IF n = 0 THEN 0
    ELSE EnabledLength(sel, n - 1)
         + (IF sel[Categories[n]] THEN Len(CategoryChars[Categories[n]]) ELSE 0)

\* C14: the pool build_character_pool returned has as many characters as the
\* enabled categories together; the characters of each enabled category stand
\* in it in their own order, right after those of the enabled categories
\* that precede it in the order lower, upper, digits, symbols; and it is
\* empty exactly when no category is enabled.
C14_PoolIsConcatenation ==
    \A c \in Calls :
        pc[c] = "check_pool" =>
            /\ Len(pool[c]) = EnabledLength(include[c], Len(Categories))
            /\ \A k \in Enabled(include[c]) :
                   \A i \in DOMAIN CategoryChars[k] :
                       pool[c][EnabledLength(include[c], CategoryIndex(k) - 1) + i]
                           = CategoryChars[k][i]
            /\ pool[c] = << >> <=> Enabled(include[c]) = { }

\* The pool of {Uppercase, Symbol}: 52 characters, "Z" the 26th and "!" the 27th.
C14_Witness ==
    \E c \in Calls :
        /\ pc[c] = "check_pool"
        /\ Enabled(include[c]) = { "upper", "symbols" }
        /\ Len(pool[c]) = 52
        /\ pool[c][26] = "Z"
        /\ pool[c][27] = "!"

\* C15: every call that is entered ends, by an exception or a return; and
\* when the fill loop has been left it has run max(0, length - k) times, k
\* the number of enabled categories.
C15_Terminates ==
    /\ [](\A c \in Calls :
            pc[c] \in { "shuffle", "return", "returned" } =>
                Len(password_chars[c]) - EnabledCount(c)
                    = Max(0, length[c] - EnabledCount(c)))
    /\ \A c \in Calls : (pc[c] = "check_length") ~> Ended(c)

\* A call with one category and length 3 returned after two fill draws.
C15_Witness ==
    \E c \in Calls :
        /\ pc[c] = "returned"
        /\ EnabledCount(c) = 1
        /\ length[c] = 3
        /\ Len(password_chars[c]) = 3

\* C18: a call with length < 1 and no category raises the length error, the
\* pool is built only after the length has passed its test, and no draw is
\* made before both tests have passed.
C18_LengthBeforeSelection ==
    \A c \in Calls :
        /\ (pc[c] = "raised" /\ length[c] < 1 /\ Enabled(include[c]) = { }) =>
               error[c] = LengthError
        /\ pc[c] \in { "build_pool", "check_pool" } => length[c] >= 1
        /\ error[c] = NoCategoryError => length[c] >= 1
        /\ (randomness[c] # { } \/ password_chars[c] # << >>) =>
               /\ length[c] >= 1
               /\ pool[c] # << >>
               /\ pc[c] \notin { "check_length", "build_pool", "check_pool", "raised" }

\* generate(0, {}) raised the length error.
C18_Witness ==
    \E c \in Calls :
        /\ pc[c] = "raised"
        /\ length[c] = 0
        /\ Enabled(include[c]) = { }
        /\ error[c] = LengthError

\* The enabled categories in the order lower, upper, digits, symbols.
EnabledSeq(sel) == SelectSeq(Categories, LAMBDA k : sel[k])

\* C19: the step that ends the guarantee step and enters the fill loop
\* leaves a buffer of exactly k characters, the i-th of them a character of
\* the i-th enabled category's own literal.
C19_GuaranteeBuffer ==
    [][ \A c \in Calls :
          (pc[c] = "guarantee_symbols" /\ pc'[c] = "fill") =>
              /\ Len(password_chars'[c]) = EnabledCount(c)
              /\ \A i \in 1..EnabledCount(c) :
                     password_chars'[c][i]
                         \in Range(CategoryChars[EnabledSeq(include[c])[i]]) ]_vars

\* The buffer before the fill loop of generate(4, {Lowercase, Digit, Symbol}).
C19_Witness ==
    \E c \in Calls :
        /\ pc[c] = "fill"
        /\ length[c] = 4
        /\ Enabled(include[c]) = { "lower", "digits", "symbols" }
        /\ Len(password_chars[c]) = 3
        /\ password_chars[c][2] \in Range(digits)
        /\ password_chars[c][3] \in Range(symbols)

\* C20: from the guarantee step on the pool is the one build_character_pool
\* returned, and every iteration of the fill loop can append any character
\* of that pool, whatever the buffer holds, and leaves the pool as it is.
C20_FillWithReplacement ==
    \A c \in Calls :
        /\ pc[c] \in DOMAIN GuaranteeStages \cup { "fill", "shuffle", "return", "returned" } =>
               pool[c] = build_character_pool(include[c])
        /\ (pc[c] = "fill" /\ Len(password_chars[c]) < length[c]) =>
               \A ch \in choice(build_character_pool(include[c])) :
                   ENABLED ( /\ FillDraw(c)
                             /\ password_chars'[c] = Append(password_chars[c], ch)
                             /\ pool'[c] = pool[c] )

\* The fill loop drew a character the buffer already held, and can go on.
C20_Witness ==
    \E c \in Calls :
        /\ pc[c] = "fill"
        /\ Len(password_chars[c]) = 3
        /\ length[c] = 4
        /\ EnabledCount(c) = 2
        /\ password_chars[c][3] \in { password_chars[c][1], password_chars[c][2] }

\* C17: under run_cli and run_gui no call of generate_password has an empty
\* selection: a run_cli that printed the no-categories line calls it with
\* Lowercase alone, and an on_generate with no box ticked can only show the
\* "No character sets" error, after which no call is in progress.
C17_CallersNeverPassEmptySelection ==
    /\ \A c \in Calls : pc[c] # "idle" => Enabled(include[c]) # { }
    /\ (NoCategoriesLine \in stdout /\ pc["A"] # "idle") =>
           Enabled(include["A"]) = { "lower" }
    /\ (caller = "run_gui" /\ caller_pc = "mainloop") =>
           ENABLED (GuiReject /\ messagebox' = NoSetsBox)
    /\ messagebox = NoSetsBox => (pc["A"] = "idle" /\ caller_pc = "mainloop")

\* run_cli, all four categories declined, printed the password of the call
\* it made with Lowercase switched on.
C17_Witness ==
    /\ caller = "run_cli"
    /\ caller_pc = "done"
    /\ NoCategoriesLine \in stdout
    /\ \E line \in stdout :
           /\ Len(line.chars) = 4
           /\ \A i \in 1..4 : line.chars[i] \in Range(ascii_lowercase)

\* How often ch occurs in chars.
CountOf(chars, ch) == Cardinality({ i \in DOMAIN chars : chars[i] = ch })

\* a and b hold the same characters, each as often in a as in b.
SameMultiset(a, b) ==
    /\ Len(a) = Len(b)
    /\ \A ch \in Range(a) \cup Range(b) : CountOf(a, ch) = CountOf(b, ch)

\* C21: the shuffle is entered from the fill loop only, acts on the whole
\* buffer and only reorders it, the buffer is not touched again before the
\* return, and the string a valid request returns has the multiset of
\* characters of the shuffled buffer, hence of the buffer the guarantee and
\* fill steps built.
C21_ShuffleOnlyReorders ==
    [][ \A c \in Calls :
          /\ (pc[c] # "shuffle" /\ pc'[c] = "shuffle") => pc[c] = "fill"
          /\ (pc[c] = "shuffle" /\ pc'[c] = "return") =>
                 SameMultiset(password_chars'[c], password_chars[c])
          /\ (pc[c] = "return" /\ pc'[c] = "returned") =>
                 /\ password_chars'[c] = password_chars[c]
                 /\ Valid(c) => SameMultiset(result'[c].value, password_chars[c])
      ]_vars

\* A valid call with lowercase and digits returned three characters, the
\* guaranteed lowercase letter moved to the last place by the shuffle.
C21_Witness ==
    \E c \in Calls :
        /\ pc[c] = "returned"
        /\ length[c] = 3
        /\ Enabled(include[c]) = { "lower", "digits" }
        /\ result[c].value[1] \in Range(digits)
        /\ result[c].value[2] \in Range(digits)
        /\ result[c].value[3] \in Range(ascii_lowercase)

\* " ", tab, newline, carriage return, form feed.
Whitespace == { " ", "\t", "\n", "\r", "\f" }

\* C22: the four category literals have 26, 26, 10 and 26 characters, none
\* repeated and none whitespace, and are pairwise disjoint; so every
\* character of the pool a call has built is in exactly one category, an
\* enabled one, and no character occurs twice in the pool.
C22_CategoriesDisjoint ==
    \A c \in Calls :
        pc[c] = "check_pool" =>
            /\ Len(ascii_lowercase) = 26
            /\ Len(ascii_uppercase) = 26
            /\ Len(digits) = 10
            /\ Len(symbols) = 26
            /\ \A k \in CategoryNames :
                 /\ Cardinality(Range(CategoryChars[k])) = Len(CategoryChars[k])
                 /\ Range(CategoryChars[k]) \cap Whitespace = { }
                 /\ \A other \in CategoryNames \ { k } :
                      Range(CategoryChars[k]) \cap Range(CategoryChars[other]) = { }
            /\ Cardinality(Range(pool[c])) = Len(pool[c])
            /\ \A i \in DOMAIN pool[c] :
                 /\ Cardinality({ k \in CategoryNames :
                                    pool[c][i] \in Range(CategoryChars[k]) }) = 1
                 /\ CategoryOf(pool[c][i]) \in Enabled(include[c])

\* A call with all four categories has built its pool of 88 characters.
C22_Witness ==
    \E c \in Calls :
        /\ pc[c] = "check_pool"
        /\ Enabled(include[c]) = CategoryNames
        /\ Len(pool[c]) = 88

C23_PromptIntLoopsUntilInRange ==
    [][ (caller = "run_cli" /\ caller_pc = "prompt_length") =>
            \/ caller_pc' = "prompt_length"
            \/ /\ caller_pc' = "calling"
               /\ length'["A"] >= MinCallerLength
               /\ length'["A"] <= MaxCallerLength
      ]_vars

\* C25: under run_cli and run_gui generate_password is only called with a
\* length of 4..512 and at least one category and never raises, and the
\* password run_cli prints or on_generate puts into password_var is the
\* string the call returned, which holds a character of every category the
\* call was made with (the categories the user enabled, or Lowercase for a
\* run_cli user who enabled none).
C25_CallersGetCoveringPasswords ==
    /\ [](pc["A"] # "idle" =>
            /\ length["A"] >= 4
            /\ length["A"] <= 512
            /\ Enabled(include["A"]) # { }
            /\ pc["A"] # "raised")
    /\ [][ (pc["A"] = "returned" /\ pc'["A"] = "idle") =>
             /\ \A k \in Enabled(include["A"]) :
                  Range(result["A"].value) \cap Range(CategoryChars[k]) # { }
             /\ caller = "run_cli" => PasswordLine(result["A"].value) \in stdout'
             /\ caller = "run_gui" => password_var' = result["A"].value
         ]_vars

\* run_cli printed a password of four characters with a lowercase letter and
\* a digit in it.
C25_Witness ==
    /\ caller = "run_cli"
    /\ caller_pc = "done"
    /\ \E line \in stdout :
         /\ Len(line.chars) = 4
         /\ Range(line.chars) \cap Range(ascii_lowercase) # { }
         /\ Range(line.chars) \cap Range(digits) # { }

\* C26: password_var is empty when the window opens and changes in one way
\* only, an accepted on_generate storing the string its call returned; a
\* Generate click that is refused leaves it as it is.
C26_RejectedGenerateKeepsPassword ==
    /\ (caller = "run_gui" => password_var = << >>)
    /\ [][ caller = "run_gui" =>
             /\ (caller_pc = "mainloop" /\ caller_pc' = "mainloop") =>
                    password_var' = password_var
             /\ (caller_pc = "on_generate" /\ caller_pc' = "mainloop") =>
                    password_var' = result["A"].value
             /\ password_var' # password_var =>
                    (caller_pc = "on_generate" /\ caller_pc' = "mainloop")
         ]_vars

\* The GUI shows the password of an earlier accepted Generate after a click
\* that was refused for its length.
C26_Witness ==
    /\ caller = "run_gui"
    /\ caller_pc = "mainloop"
    /\ messagebox.title = "Invalid length"
    /\ Len(password_var) = 4

\* C27, as stated: on_copy leaves the clipboard alone and reports that there
\* is nothing to copy when the field is empty, never writes an empty
\* string, and when it has finished the clipboard holds the field's current
\* content.
C27_ClipboardHoldsCurrentField ==
    [][ /\ (Len(on_copy_frames') >= Len(on_copy_frames) /\ password_var' = password_var
              /\ password_var = << >> /\ messagebox' # messagebox) =>
               (clipboard' = clipboard /\ messagebox' = NothingToCopyBox)
        /\ clipboard' # clipboard => clipboard' # << >>
        /\ Len(on_copy_frames') < Len(on_copy_frames) => clipboard' = password_var'
      ]_vars

\* C27, amended: on_copy never writes an empty string to the clipboard: with
\* an empty field it leaves the clipboard alone and shows "Nothing to copy";
\* otherwise it writes the content the field has when it is invoked, and
\* this is what the clipboard holds when root.update() begins.  When on_copy
\* finishes with the "Copied" dialog it has not touched the clipboard again,
\* whatever the events handled in root.update() did to the field.
C27_CopyWritesWhatItRead ==
    [][ /\ (password_var' = password_var /\ password_var = << >>) =>
               /\ clipboard' = clipboard
               /\ on_copy_frames' # on_copy_frames \/ messagebox' # messagebox =>
                      (messagebox' = NothingToCopyBox \/ messagebox' = CopiedBox)
        /\ clipboard' # clipboard => clipboard' # << >>
        /\ Len(on_copy_frames') > Len(on_copy_frames) =>
               /\ password_var # << >>
               /\ clipboard' = password_var
               /\ on_copy_frames'[Len(on_copy_frames')] = password_var
        /\ Len(on_copy_frames') < Len(on_copy_frames) =>
               /\ clipboard' = clipboard
               /\ messagebox' = CopiedBox
      ]_vars

\* on_copy has finished with the "Copied" dialog after the field changed
\* during root.update(): the clipboard holds what on_copy read.
C27_Witness ==
    /\ on_copy_frames = << >>
    /\ messagebox = CopiedBox
    /\ clipboard = << "a" >>
    /\ password_var = << " " >>

\* C28: no two contacts of the book have the same phone number, and a call
\* of add_contact, update_contact or delete_contact that returns False
\* leaves the list as it was.
C28_PhonesUnique ==
    /\ [](\A i, j \in DOMAIN contacts : i # j => contacts[i].phone # contacts[j].phone)
    /\ [][returned' = "False" => contacts' = contacts]_vars

\* A call was refused on a book of two contacts with the same name.
C28_Witness ==
    /\ returned = "False"
    /\ Len(contacts) = 2
    /\ contacts[1].name = contacts[2].name
    /\ contacts[1].phone # contacts[2].phone

\* C29: whenever no handler of the game is running, the history has
\* round_count entries and user_score + computer_score <= round_count; and
\* at most one round is under way (a make_choice waiting in root.update()
\* or a play_round scheduled), the weapon buttons being disabled while one is.
C29_OneRoundPending ==
    /\ Len(game_history) = round_count
    /\ user_score + computer_score <= round_count
    /\ Len(timers) + Len(make_choice_frames) <= 1
    /\ Len(timers) + Len(make_choice_frames) = 1 <=> buttons = "disabled"

\* Two rounds played, one of them a tie or more, and a third scheduled.
C29_Witness ==
    /\ round_count = 2
    /\ Len(game_history) = 2
    /\ user_score + computer_score < 2
    /\ Len(timers) = 1
    /\ buttons = "disabled"

\* C30: no two tasks of the to-do list have the same id.
C30_TaskIdsUnique ==
    \A i, j \in DOMAIN tasks : i # j => tasks[i].id # tasks[j].id

====
